---- MODULE Spec2Model ----
(***************************************************************************)
(* A model of xlsx-template-browser: the replace() template expansion of   *)
(* src/lib/main.js with the helpers it imports (excelHelpers: valueToString,*)
(* guessDataType, createSharedString, createCell, getExcelColumnName,      *)
(* getExcelColumnIndex; helpers: getDeep, getByNotation).                  *)
(*                                                                         *)
(* JavaScript values are tagged records, DOM nodes are records holding     *)
(* their attributes and children, arrays are sequences (index i of the     *)
(* code is position i + 1 here) and strings of cell references are         *)
(* sequences of one-character strings.                                     *)
(***************************************************************************)
EXTENDS Integers, Sequences, FiniteSets, TLC

(***************************************************************************)
(* JavaScript values                                                       *)
(***************************************************************************)
Undef == [k |-> "undefined"]
Null == [k |-> "null"]
Num(n) == [k |-> "number", n |-> n]
Str(s) == [k |-> "string", s |-> s]
Bool(b) == [k |-> "boolean", b |-> b]
Arr(a) == [k |-> "array", a |-> a]
\* an object is the sequence of its <<key, value>> properties, in insertion order
Obj(o) == [k |-> "object", o |-> o]
\* the outcome of an operation that raises a TypeError
Thrown == [k |-> "TypeError"]

\* !value
Falsy(v) ==
    \/ v.k \in {"undefined", "null"}
    \/ v.k = "number" /\ v.n = 0
    \/ v.k = "string" /\ v.s = ""
    \/ v.k = "boolean" /\ ~v.b

HasKey(o, key) == \E i \in 1..Len(o) : o[i][1] = key
Lookup(o, key) == o[CHOOSE i \in 1..Len(o) : o[i][1] = key][2]

Digits == <<"0", "1", "2", "3", "4", "5", "6", "7", "8", "9">>

\* Number.prototype.toString of a non-negative integer
RECURSIVE NumToString(_)
NumToString(n) ==
    IF n < 10 THEN Digits[n + 1]
    ELSE NumToString(n \div 10) \o Digits[(n % 10) + 1]

\* /^\d+$/.test(el) for the segments the templates use
IsDigits(s) == \E n \in 0..20 : NumToString(n) = s
\* parseInt(el) of such a segment
ParseInt(s) == CHOOSE n \in 0..20 : NumToString(n) = s

\* the property read obj[accessor] of line 284
Member(obj, acc) ==
    CASE obj.k = "null" -> Thrown
      [] obj.k = "object" ->
            LET key == IF acc.k = "number" THEN NumToString(acc.n) ELSE acc.s
            IN  IF HasKey(obj.o, key) THEN Lookup(obj.o, key) ELSE Undef
      [] obj.k = "array" ->
            IF acc.k = "number" /\ acc.n < Len(obj.a) THEN obj.a[acc.n + 1] ELSE Undef
      [] OTHER -> Undef

RECURSIVE getDeepFrom(_, _, _)
getDeepFrom(obj, accessors, i) ==
    IF i > Len(accessors) THEN obj
    ELSE IF obj.k = "undefined" THEN Undef
    ELSE IF obj.k = "array" /\ accessors[i].k = "string"
    THEN LET rest == SubSeq(accessors, i, Len(accessors))
             rs == [j \in 1..Len(obj.a) |-> getDeepFrom(obj.a[j], rest, 1)]
         IN  IF \E j \in 1..Len(rs) : rs[j] = Thrown THEN Thrown ELSE Arr(rs)
    ELSE LET nxt == Member(obj, accessors[i])
         IN  IF nxt = Thrown THEN Thrown ELSE getDeepFrom(nxt, accessors, i + 1)

getDeepBroadcastsNumeric(obj, accessors) ==
    getDeepFrom(obj, [i \in 1..Len(accessors) |->
                        IF accessors[i].k = "number"
                        THEN Str(NumToString(accessors[i].n)) ELSE accessors[i]], 1)

getDeep(obj, accessors) == getDeepFrom(obj, accessors, 1)

\* props is the list of segments notationRegex finds in the accessor text,
\* <<>> when it finds none (String.prototype.match then gives null)
getByNotation(obj, props) ==
    IF props = <<>> THEN Thrown
    ELSE getDeep(obj, [i \in 1..Len(props) |->
                        IF IsDigits(props[i]) THEN Num(ParseInt(props[i]))
                        ELSE Str(props[i])])

RECURSIVE Join(_, _)
Join(strs, sep) ==
    IF strs = <<>> THEN ""
    ELSE IF Len(strs) = 1 THEN strs[1]
    ELSE strs[1] \o sep \o Join(Tail(strs), sep)

\* JSON.stringify
RECURSIVE JSONStringify(_)
JSONStringify(v) ==
    CASE v.k = "number" -> NumToString(v.n)
      [] v.k = "string" -> "\"" \o v.s \o "\""
      [] v.k = "boolean" -> IF v.b THEN "true" ELSE "false"
      [] v.k = "array" ->
            "[" \o Join([i \in 1..Len(v.a) |->
                           IF v.a[i].k = "undefined" THEN "null"
                           ELSE JSONStringify(v.a[i])], ",") \o "]"
      [] v.k = "object" ->
            LET props == SelectSeq(v.o, LAMBDA p : p[2].k # "undefined")
            IN  "{" \o Join([i \in 1..Len(props) |->
                               "\"" \o props[i][1] \o "\":" \o JSONStringify(props[i][2])],
                            ",") \o "}"
      [] OTHER -> "null"

RECURSIVE valueToString(_)
valueToString(value) ==
    IF Falsy(value) THEN ""
    ELSE CASE value.k = "array" ->
                Join([i \in 1..Len(value.a) |-> valueToString(value.a[i])], ",")
           [] value.k = "object" -> JSONStringify(value)
           [] value.k = "number" -> NumToString(value.n)
           [] value.k = "boolean" -> "true"
           [] OTHER -> value.s

\* the values of the model are undefined, null, finite numbers, booleans,
\* strings, arrays and objects
guessDataType(value) ==
    CASE value.k = "undefined" -> Undef
      [] value.k = "number" -> [cellType |-> "n", value |-> value]
      [] value.k = "boolean" ->
            [cellType |-> "b", value |-> Num(IF value.b THEN 1 ELSE 0)]
      [] OTHER -> [cellType |-> "s", value |-> Str(valueToString(value))]

(***************************************************************************)
(* Reference arithmetic                                                    *)
(***************************************************************************)
Letters == <<"A", "B", "C", "D", "E", "F", "G", "H", "I", "J", "K", "L", "M",
             "N", "O", "P", "Q", "R", "S", "T", "U", "V", "W", "X", "Y", "Z">>

IsDigitChar(ch) == \E i \in 1..10 : Digits[i] = ch
\* columnName.charCodeAt(i) - 64
CharCode(ch) == CHOOSE i \in 1..26 : Letters[i] = ch

RECURSIVE NumToChars(_)
NumToChars(n) ==
    IF n < 10 THEN <<Digits[n + 1]>>
    ELSE Append(NumToChars(n \div 10), Digits[(n % 10) + 1])

RECURSIVE getExcelColumnNameOffByOne(_)
getExcelColumnNameOffByOne(index) ==
    IF index > 0
    THEN Append(getExcelColumnNameOffByOne(index \div 26), Letters[((index - 1) % 26) + 1])
    ELSE <<>>

RECURSIVE getExcelColumnName(_)
getExcelColumnName(index) ==
    IF index > 0
    THEN Append(getExcelColumnName((index - 1) \div 26), Letters[((index - 1) % 26) + 1])
    ELSE <<>>

RECURSIVE ColumnIndexLoop(_, _, _)
ColumnIndexLoop(columnName, i, index) ==
    IF i > Len(columnName) THEN index
    ELSE ColumnIndexLoop(columnName, i + 1, index * 26 + CharCode(columnName[i]))

getExcelColumnIndex(columnName) ==
    ColumnIndexLoop(SelectSeq(columnName, LAMBDA ch : ~IsDigitChar(ch)), 1, 0)

(***************************************************************************)
(* Inputs: the data context and the template package                       *)
(***************************************************************************)
MaxPeople == 3
MaxDates == 3
MaxRows == 2
MaxColumn == 800

Names == <<"John", "Bob">>

\* the j-th object of the list people; every third one has no age
Person(j) ==
    IF j % 3 = 0
    THEN Obj(<<<<"name", Str(Names[((j - 1) % 2) + 1])>>>>)
    ELSE Obj(<<<<"name", Str(Names[((j - 1) % 2) + 1])>>, <<"age", Num(20 + j)>>>>)

DateValue(j) == IF j % 2 = 1 THEN Str("Jun-01") ELSE Num(41000 + j)

\* a data context with k people and n dates
Data(k, n) ==
    Obj(<< <<"title", Str("Report")>>,
           <<"count", Num(7)>>,
           <<"dates", Arr([j \in 1..n |-> DateValue(j)])>>,
           <<"people", Arr([j \in 1..k |-> Person(j)])>>,
           <<"items", Arr(<<Obj(<<<<"tag", Str("John")>>>>)>>)>>,
           <<"meta", Obj(<<<<"owner", Null>>>>)>> >>)

DataSet == {Data(k, n) : k \in 0..MaxPeople, n \in {1, MaxDates}}

\* the parts of the text of an <si>: literal text and ${...} placeholders
Lit(text) == [ph |-> FALSE, table |-> FALSE, lit |-> text, segs |-> <<>>]
Ph(segs) == [ph |-> TRUE, table |-> FALSE, lit |-> "", segs |-> segs]
TablePh(segs) == [ph |-> TRUE, table |-> TRUE, lit |-> "", segs |-> segs]
\* <si><t>..</t></si>, <si><r>..</r></si> and <si/>
Si(parts) == [rich |-> FALSE, hasT |-> TRUE, parts |-> parts]
RichSi(parts) == [rich |-> TRUE, hasT |-> TRUE, parts |-> parts]
EmptySi == [rich |-> FALSE, hasT |-> FALSE, parts |-> <<>>]

\* xl/sharedStrings.xml of the template; the code's index of an entry is its
\* position here minus one
BaseStrings ==
    << Si(<<TablePh(<<"people", "name">>)>>),          \* 0
       Si(<<Ph(<<"title">>)>>),                        \* 1
       Si(<<Ph(<<"dates">>)>>),                        \* 2
       Si(<<Lit("Name")>>),                            \* 3
       Si(<<TablePh(<<"people", "age">>)>>),           \* 4
       Si(<<Ph(<<"missing">>)>>),                      \* 5
       Si(<<Lit("Total: "), Ph(<<"count">>)>>),        \* 6
       RichSi(<<Lit("By "), Ph(<<"people", "0", "name">>)>>),   \* 7
       EmptySi,                                        \* 8
       Si(<<TablePh(<<"items", "tag">>)>>),            \* 9
       Si(<<Ph(<<"count">>)>>),                        \* 10
       Si(<<Ph(<<"people", "name">>)>>) >>             \* 11

\* tables that also hold a table placeholder over a scalar, a path through
\* null, and an accessor in which notationRegex finds no segment
StringTables ==
    { BaseStrings,
      BaseStrings \o <<Si(<<TablePh(<<"title">>)>>)>>,
      BaseStrings \o <<Si(<<Ph(<<"meta", "owner", "name">>)>>)>>,
      BaseStrings \o <<Si(<<Ph(<<>>)>>)>> }

\* a <c> element: attributes r, s (style, 0 when absent) and t ("" when
\* absent), children <f> ("" when absent) and <v> (<<>> when absent);
\* node is the identity of a node of the parsed template, <<>> for a node
\* the code creates
Cell(node, r, s, t, f, v) ==
    [tag |-> "c", node |-> node, r |-> r, s |-> s, t |-> t, f |-> f, v |-> v]
TextNode(text) ==
    [tag |-> "#text", node |-> <<>>, r |-> <<>>, s |-> 0, t |-> text, f |-> "", v |-> <<>>]

SCell(col, idx) == [kind |-> "s", col |-> col, val |-> idx]
NCell(col, n) == [kind |-> "n", col |-> col, val |-> n]
FCell(col, cached) == [kind |-> "f", col |-> col, val |-> cached]

\* the rows a worksheet is made of: the cells by column
RowKinds ==
    << <<SCell(1, 3), SCell(2, 1), NCell(3, 42)>>,
       <<SCell(1, 2), SCell(2, 6), FCell(3, 12)>>,
       <<SCell(1, 0), SCell(2, 4)>>,
       <<SCell(1, 3), SCell(2, 0), FCell(3, 5), SCell(4, 9)>>,
       <<SCell(1, 5), SCell(2, 11), SCell(3, 10), SCell(4, 2), NCell(6, 9)>>,
       <<SCell(1, 7), SCell(2, 8), SCell(27, 3)>>,
       <<SCell(1, 1), SCell(2, 2), SCell(3, 0), NCell(4, 5), SCell(5, 3)>> >>

TemplateCell(w, p, i, c) ==
    Cell(<<w, p, i>>, getExcelColumnName(c.col) \o NumToChars(p), 10 * p + i,
         IF c.kind = "s" THEN "s" ELSE "",
         IF c.kind = "f" THEN "SUM" ELSE "",
         <<c.val>>)

\* a <row r="p"> element with its cells
TemplateRow(w, p, kind) ==
    [r |-> p, cells |-> [i \in 1..Len(RowKinds[kind]) |-> TemplateCell(w, p, i, RowKinds[kind][i])]]

Ref(col, row) == getExcelColumnName(col) \o NumToChars(row)

\* a worksheet: its rows, and a merged range below the last row and one to
\* the right of the cells of row 1
Worksheet(w, kinds) ==
    [ rows |-> [p \in 1..Len(kinds) |-> TemplateRow(w, p, kinds[p])],
      mergeCells |-> << [from |-> Ref(1, Len(kinds) + 1), to |-> Ref(2, Len(kinds) + 1)],
                        [from |-> Ref(30, 1), to |-> Ref(31, 1)] >> ]

KindSeqs == UNION {[1..n -> 1..Len(RowKinds)] : n \in 1..MaxRows}

\* one worksheet of up to MaxRows rows, optionally followed by a second
\* worksheet that repeats the table row
Workbooks ==
    {<<Worksheet(1, ks)>> : ks \in KindSeqs}
      \cup {<<Worksheet(1, ks), Worksheet(2, <<3>>)>> : ks \in KindSeqs}

(***************************************************************************)
(* State                                                                   *)
(***************************************************************************)
VARIABLES
    data,               \* the data argument of replace
    strings,            \* the <si> elements of xl/sharedStrings.xml
    sheets,             \* the parsed xl/worksheets/*.xml
    pc,                 \* where replace is
    i,                  \* index of the <si> the first pass is at
    valuesToReplace,
    newSharedStrings,
    newStrings,
    addLog,             \* history: the calls of addString, <<text, result>>
    w,                  \* position of the current worksheet
    p,                  \* position of the current row in the worksheet
    ci,                 \* position of the current cell in the row
    rowOffset,
    cellOffset,
    newCells,
    newRows,
    zipSheets,          \* the worksheets written to the new package
    zipStrings,         \* the <si> list written as xl/sharedStrings.xml
    fnIn,               \* argument of a helper applied on its own
    fnOut               \* its result

vars == <<data, strings, sheets, pc, i, valuesToReplace, newSharedStrings, newStrings,
          addLog, w, p, ci, rowOffset, cellOffset, newCells, newRows, zipSheets,
          zipStrings, fnIn, fnOut>>

inputVars == <<data, strings, sheets>>
sheetVars == <<w, p, ci, rowOffset, cellOffset, newCells, newRows>>
helperVars == <<fnIn, fnOut>>

Idle == [op |-> "none"]

(***************************************************************************)
(* The shared strings pass (main.js 52-94)                                 *)
(***************************************************************************)
Hole == [vk |-> "hole"]
One(g) == [vk |-> "one", cellType |-> g.cellType, value |-> g.value]
Table(items) == [vk |-> "table", value |-> items]
Array(items) == [vk |-> "array", items |-> items]

IsUndef(x) == "k" \in DOMAIN x /\ x.k = "undefined"

\* s.replace(/\$\{|}/g, '') of a placeholder of a text: the table: prefix
\* stays in the accessor text and becomes part of its first segment
Body(part) ==
    IF part.table /\ part.segs # <<>>
    THEN <<"table:" \o part.segs[1]>> \o Tail(part.segs)
    ELSE part.segs

\* textValue.replace(globalAccessorRegex, ...): Thrown when a lookup throws
ReplaceText(parts, d) ==
    LET vals == [j \in 1..Len(parts) |->
                    IF parts[j].ph THEN getByNotation(d, Body(parts[j])) ELSE Undef]
    IN  IF \E j \in 1..Len(parts) : vals[j] = Thrown THEN Thrown
        ELSE Str(Join([j \in 1..Len(parts) |->
                          IF parts[j].ph THEN valueToString(vals[j]) ELSE parts[j].lit], ""))

\* textValue.match(accessorRegex): the text is one placeholder and nothing else
IsSinglePlaceholder(si) == Len(si.parts) = 1 /\ si.parts[1].ph

\* one call of the forEach callback: what is pushed to newSharedStrings and
\* what is stored at valuesToReplace[i]; threw when it raises
SharedStringStep(si, d, nss) ==
    LET carried(text, rich) ==
            [threw |-> FALSE, push |-> <<[rich |-> rich, text |-> text.s]>>,
             entry |-> One([cellType |-> "s", value |-> Num(Len(nss))])]
        nothing == [threw |-> FALSE, push |-> <<>>, entry |-> Hole]
        stored(e) == [threw |-> FALSE, push |-> <<>>, entry |-> e]
        raise == [threw |-> TRUE, push |-> <<>>, entry |-> Hole]
    IN  IF si.rich \/ (si.hasT /\ ~IsSinglePlaceholder(si))
        THEN LET text == ReplaceText(si.parts, d)
             IN  IF text = Thrown THEN raise ELSE carried(text, si.rich)
        ELSE IF ~si.hasT THEN nothing
        ELSE LET value == getByNotation(d, si.parts[1].segs)
             IN  IF value = Thrown THEN raise
                 ELSE IF value.k = "undefined" THEN nothing
                 ELSE IF si.parts[1].table
                 THEN IF value.k # "array" THEN raise
                      ELSE stored(Table([j \in 1..Len(value.a) |-> guessDataType(value.a[j])]))
                 ELSE IF value.k = "array"
                 THEN stored(Array([j \in 1..Len(value.a) |-> guessDataType(value.a[j])]))
                 ELSE LET g == guessDataType(value)
                      IN  IF IsUndef(g) THEN nothing ELSE stored(One(g))

ProcessSharedString ==
    /\ pc = "sharedStrings"
    /\ i < Len(strings)
    /\ LET step == SharedStringStep(strings[i + 1], data, newSharedStrings)
       IN  IF step.threw
           THEN /\ pc' = "threw"
                /\ UNCHANGED <<i, valuesToReplace, newSharedStrings>>
           ELSE /\ newSharedStrings' = newSharedStrings \o step.push
                /\ valuesToReplace' = Append(valuesToReplace, step.entry)
                /\ i' = i + 1
                /\ pc' = IF i + 1 = Len(strings) THEN "worksheets" ELSE pc
    /\ UNCHANGED <<inputVars, sheetVars, helperVars, newStrings, addLog, zipSheets, zipStrings>>

(***************************************************************************)
(* addString (main.js 102-110)                                             *)
(***************************************************************************)
IndexOf(seq, value) ==
    IF \E j \in 1..Len(seq) : seq[j] = value
    THEN (CHOOSE j \in 1..Len(seq) :
              seq[j] = value /\ \A h \in 1..(j - 1) : seq[h] # value) - 1
    ELSE -1

\* a bug that would push every string, whether it is in newStrings or not
addStringAlwaysPushes(ns, base, value) ==
    [newStrings |-> Append(ns, value), value |-> Len(ns) + base]

\* a bug that would leave out the offset of the carried-forward entries
addStringNoOffset(ns, base, value) ==
    LET stringIndex == IndexOf(ns, value)
    IN  IF stringIndex = -1
        THEN [newStrings |-> Append(ns, value), value |-> Len(ns)]
        ELSE [newStrings |-> ns, value |-> stringIndex]

\* ns is newStrings and base is newSharedStrings.length; the result is the
\* new newStrings and the returned index
addString(ns, base, value) ==
    LET stringIndex == IndexOf(ns, value)
    IN  IF stringIndex = -1
        THEN [newStrings |-> Append(ns, value), value |-> Len(ns) + base]
        ELSE [newStrings |-> ns, value |-> stringIndex + base]

(***************************************************************************)
(* The per-cell loop (main.js 133-178)                                     *)
(***************************************************************************)
NoTemplate == [tag |-> "none", node |-> <<>>, r |-> <<>>, s |-> 0, t |-> "", f |-> "", v |-> <<>>]

\* an element of newCells: a cell descriptor { value, cellType, template },
\* or (arr) an array of them
Descriptor(value, cellType, template) ==
    [arr |-> FALSE, items |-> <<>>, value |-> value, cellType |-> cellType, template |-> template]
DescriptorArray(items) ==
    [arr |-> TRUE, items |-> items, value |-> Undef, cellType |-> "", template |-> NoTemplate]

\* newCells[idx] = d on the sparse array newCells
Put(nc, idx, d) == [x \in DOMAIN nc \cup {idx} |-> IF x = idx THEN d ELSE nc[x]]
PutAll(nc, start, ds) ==
    [x \in DOMAIN nc \cup start..(start + Len(ds) - 1) |->
        IF x \in start..(start + Len(ds) - 1) THEN ds[x - start + 1] ELSE nc[x]]

\* the elements of a resolved array, one after the other: each string element
\* goes through addString. vals is the array with the indices in place of the
\* strings (what line 161 leaves in valuesToReplace), cells the descriptors
RECURSIVE MapCells(_, _, _, _, _)
MapCells(items, c, ns, base, log) ==
    IF items = <<>> THEN [vals |-> <<>>, cells |-> <<>>, newStrings |-> ns, log |-> log]
    ELSE LET el == Head(items)
             isNew == ~IsUndef(el) /\ el.cellType = "s" /\ el.value.k = "string"
             added == addString(ns, base, el.value.s)
             el2 == IF isNew THEN [el EXCEPT !.value = Num(added.value)] ELSE el
             cell == IF IsUndef(el) THEN Descriptor(Undef, "", c)
                     ELSE Descriptor(el2.value, el2.cellType, c)
             rest == MapCells(Tail(items), c,
                              IF isNew THEN added.newStrings ELSE ns, base,
                              IF isNew THEN Append(log, <<el.value.s, added.value>>) ELSE log)
         IN  [vals |-> <<el2>> \o rest.vals, cells |-> <<cell>> \o rest.cells,
              newStrings |-> rest.newStrings, log |-> rest.log]

CurrentCells == sheets[w].rows[p].cells

ProcessCell ==
    /\ pc = "cells"
    /\ ci <= Len(CurrentCells)
    /\ LET c == CurrentCells[ci]
           index == getExcelColumnIndex(c.r)
           newIndex == index + cellOffset
           base == Len(newSharedStrings)
           vi == IF c.v # <<>> /\ c.v[1] < Len(valuesToReplace) THEN c.v[1] + 1 ELSE 0
           newValue == IF vi = 0 THEN Hole ELSE valuesToReplace[vi]
           keep == /\ UNCHANGED <<cellOffset, valuesToReplace, newStrings, addLog>>
       IN  IF c.f # ""
           THEN /\ newCells' = Put(newCells, newIndex, Descriptor(c, "f", c))
                /\ keep
           ELSE IF c.t # "s"
           THEN /\ newCells' = Put(newCells, newIndex, Descriptor(Undef, "", c))
                /\ keep
           ELSE IF newValue.vk = "hole"
           THEN /\ newCells' = Put(newCells, newIndex, Descriptor(Undef, "", c))
                /\ keep
           ELSE IF newValue.vk = "table"
           THEN LET m == MapCells(newValue.value, c, newStrings, base, addLog)
                IN  /\ newCells' = Put(newCells, newIndex, DescriptorArray(m.cells))
                    /\ valuesToReplace' =
                           [valuesToReplace EXCEPT ![vi] = Table(m.vals)]
                    /\ newStrings' = m.newStrings
                    /\ addLog' = m.log
                    /\ UNCHANGED cellOffset
           ELSE IF newValue.vk = "one"
           THEN IF newValue.cellType = "s" /\ newValue.value.k = "string"
                THEN LET added == addString(newStrings, base, newValue.value.s)
                     IN  /\ newCells' = Put(newCells, newIndex,
                                            Descriptor(Num(added.value), "s", c))
                         /\ newStrings' = added.newStrings
                         /\ addLog' = Append(addLog, <<newValue.value.s, added.value>>)
                         /\ UNCHANGED <<cellOffset, valuesToReplace>>
                ELSE /\ newCells' = Put(newCells, newIndex,
                                        Descriptor(newValue.value, newValue.cellType, c))
                     /\ keep
           ELSE LET m == MapCells(newValue.items, c, newStrings, base, addLog)
                IN  /\ newCells' = PutAll(newCells, newIndex, m.cells)
                    /\ cellOffset' = cellOffset +
                           (IF Len(newValue.items) > 0 THEN Len(newValue.items) - 1 ELSE 0)
                    /\ newStrings' = m.newStrings
                    /\ addLog' = m.log
                    /\ UNCHANGED valuesToReplace
    /\ ci' = ci + 1
    /\ UNCHANGED <<inputVars, helperVars, pc, i, newSharedStrings, w, p, rowOffset,
                   newRows, zipSheets, zipStrings>>

(***************************************************************************)
(* createCell (excelHelpers 67-89)                                         *)
(***************************************************************************)
\* Node.cloneNode() without deep: the attributes, none of the children
cloneNode(node) == [node EXCEPT !.node = <<>>, !.f = "", !.v = <<>>]
createElement == Cell(<<>>, <<>>, 0, "", "", <<>>)

\* for a formula cell value is the template's own node, returned without its <v>
createCell(value, row, column, template, cellType) ==
    IF cellType = "f" THEN [value EXCEPT !.v = <<>>]
    ELSE LET cell == IF template.tag # "none" THEN cloneNode(template) ELSE createElement
             placed == IF row # 0 /\ column # 0
                       THEN [cell EXCEPT !.r = getExcelColumnName(column) \o NumToChars(row)]
                       ELSE cell
         IN  IF IsUndef(value) THEN placed
             ELSE [placed EXCEPT !.t = cellType, !.v = <<value.n>>]

(***************************************************************************)
(* Generation of the new rows (main.js 182-215)                            *)
(***************************************************************************)
RECURSIVE SortedSeq(_)
SortedSeq(S) ==
    IF S = {} THEN <<>>
    ELSE LET m == CHOOSE x \in S : \A y \in S : x <= y
         IN  <<m>> \o SortedSeq(S \ {m})

Max(S) == CHOOSE x \in S : \A y \in S : y <= x

\* Math.max(...lengths), with 0 - 1 standing for -Infinity: only its sign is used
RowLength(nc) ==
    LET lengths == {Len(nc[x].items) : x \in {y \in DOMAIN nc : nc[y].arr}}
    IN  IF lengths = {} THEN -1 ELSE Max(lengths)

\* the rowValues of the single row branch
SingleRowValues(nc, rowIndex) ==
    LET cols == SortedSeq(DOMAIN nc)
    IN  [n \in 1..Len(cols) |->
            LET el == nc[cols[n]]
            IN  createCell(el.value, rowIndex, cols[n], el.template, el.cellType)]

\* a bug that would give every row of a table the first element
TableRowValuesFirstOnly(nc, rowIndex, k) ==
    LET cols == SortedSeq(DOMAIN nc)
    IN  [n \in 1..Len(cols) |->
            LET el == nc[cols[n]]
            IN  IF el.arr
                THEN IF el.items = <<>> THEN TextNode("undefined")
                     ELSE createCell(el.items[1].value, rowIndex, cols[n],
                                     el.items[1].template, el.items[1].cellType)
                ELSE createCell(el.value, rowIndex, cols[n], el.template, el.cellType)]

\* the rowValues of the k-th table row (k is the code's i): an array that has
\* no element k gives undefined, which append() turns into a text node
TableRowValues(nc, rowIndex, k) ==
    LET cols == SortedSeq(DOMAIN nc)
    IN  [n \in 1..Len(cols) |->
            LET el == nc[cols[n]]
            IN  IF el.arr
                THEN IF k + 1 > Len(el.items) THEN TextNode("undefined")
                     ELSE createCell(el.items[k + 1].value, rowIndex, cols[n],
                                     el.items[k + 1].template, el.items[k + 1].cellType)
                ELSE createCell(el.value, rowIndex, cols[n], el.template, el.cellType)]

\* row.cloneNode() with r set, and the children appended to it; from is the
\* position of the source row (history)
\* a bug that would number a new row by the row of the template alone
NewRowTemplateIndex(rowIndex, children) ==
    [from |-> p, r |-> sheets[w].rows[p].r, children |-> children]

NewRow(rowIndex, children) == [from |-> p, r |-> rowIndex, children |-> children]

\* newRow.append(node) of a node that already has a parent moves it: a node
\* of the template that is appended to row leaves the rows built before
PushRow(rows, row) ==
    LET moved == {row.children[n].node : n \in 1..Len(row.children)} \ {<<>>}
    IN  Append([n \in 1..Len(rows) |->
                   [rows[n] EXCEPT !.children =
                       SelectSeq(rows[n].children, LAMBDA ch : ch.node \notin moved)]],
               row)

RECURSIVE TableRows(_, _, _, _, _)
TableRows(rows, nc, k, length, first) ==
    IF k >= length THEN rows
    ELSE TableRows(PushRow(rows, NewRow(first + k, TableRowValues(nc, first + k, k))),
                   nc, k + 1, length, first)

EmitRows ==
    /\ pc = "cells"
    /\ ci > Len(CurrentCells)
    /\ LET length == RowLength(newCells)
           currentRow == sheets[w].rows[p].r
           rowIndex == rowOffset + currentRow
       IN  IF length <= 0
           THEN /\ newRows' = PushRow(newRows,
                                      NewRow(rowIndex, SingleRowValues(newCells, rowIndex)))
                /\ UNCHANGED rowOffset
           ELSE /\ newRows' = TableRows(newRows, newCells, 0, length, rowIndex)
                /\ rowOffset' = rowOffset + length
    /\ p' = p + 1
    /\ pc' = "rows"
    /\ UNCHANGED <<inputVars, helperVars, i, valuesToReplace, newSharedStrings, newStrings,
                   addLog, w, ci, cellOffset, newCells, zipSheets, zipStrings>>

(***************************************************************************)
(* The worksheet loop and the end of replace (main.js 114-131, 218-235)    *)
(***************************************************************************)
LoadWorksheet ==
    /\ pc = "worksheets"
    /\ w <= Len(sheets)
    /\ newRows' = <<>>
    /\ rowOffset' = 0
    /\ p' = 1
    /\ pc' = "rows"
    /\ UNCHANGED <<inputVars, helperVars, i, valuesToReplace, newSharedStrings, newStrings,
                   addLog, w, ci, cellOffset, newCells, zipSheets, zipStrings>>

BeginRow ==
    /\ pc = "rows"
    /\ p <= Len(sheets[w].rows)
    /\ newCells' = <<>>
    /\ cellOffset' = 0
    /\ ci' = 1
    /\ pc' = "cells"
    /\ UNCHANGED <<inputVars, helperVars, i, valuesToReplace, newSharedStrings, newStrings,
                   addLog, w, p, rowOffset, newRows, zipSheets, zipStrings>>

\* only <sheetData> is replaced: the rest of the worksheet is serialized as parsed
SaveWorksheet ==
    /\ pc = "rows"
    /\ p > Len(sheets[w].rows)
    /\ zipSheets' = Append(zipSheets, [rows |-> newRows, mergeCells |-> sheets[w].mergeCells])
    /\ w' = w + 1
    /\ pc' = "worksheets"
    /\ UNCHANGED <<inputVars, helperVars, i, valuesToReplace, newSharedStrings, newStrings,
                   addLog, p, ci, rowOffset, cellOffset, newCells, newRows, zipStrings>>

createSharedString(text) == [rich |-> FALSE, text |-> text]

Finalize ==
    /\ pc = "worksheets"
    /\ w > Len(sheets)
    /\ zipStrings' = newSharedStrings \o
                        [n \in 1..Len(newStrings) |-> createSharedString(newStrings[n])]
    /\ pc' = "done"
    /\ UNCHANGED <<inputVars, helperVars, sheetVars, i, valuesToReplace, newSharedStrings,
                   newStrings, addLog, zipSheets>>

Init ==
    /\ data \in DataSet
    /\ \/ strings = BaseStrings /\ sheets \in Workbooks
       \/ strings \in StringTables /\ sheets = <<Worksheet(1, <<1>>)>>
    /\ pc = "sharedStrings"
    /\ i = 0
    /\ valuesToReplace = <<>>
    /\ newSharedStrings = <<>>
    /\ newStrings = <<>>
    /\ addLog = <<>>
    /\ w = 1 /\ p = 1 /\ ci = 1
    /\ rowOffset = 0 /\ cellOffset = 0
    /\ newCells = <<>>
    /\ newRows = <<>>
    /\ zipSheets = <<>>
    /\ zipStrings = <<>>
    /\ fnIn = Idle /\ fnOut = Idle

Next ==
    \/ ProcessSharedString
    \/ LoadWorksheet
    \/ BeginRow
    \/ ProcessCell
    \/ EmitRows
    \/ SaveWorksheet
    \/ Finalize

Spec == Init /\ [][Next]_vars

(***************************************************************************)
(* Reading the template and the emitted package                            *)
(***************************************************************************)
Done == pc = "done"

SheetIds == 1..Len(sheets)
RowIds(ws) == 1..Len(sheets[ws].rows)
CellIds(ws, pos) == 1..Len(sheets[ws].rows[pos].cells)
SourceCell(ws, pos, n) == sheets[ws].rows[pos].cells[n]

\* the rows of the emitted worksheet ws that come from its source row pos
EmittedRows(ws, pos) == SelectSeq(zipSheets[ws].rows, LAMBDA row : row.from = pos)

\* the <si> a shared-string cell of the template refers to
HasSi(c) == c.f = "" /\ c.t = "s" /\ c.v # <<>> /\ c.v[1] < Len(strings)
SiOf(c) == strings[c.v[1] + 1]
IsPlaceholderCell(c) ==
    HasSi(c) /\ ~SiOf(c).rich /\ SiOf(c).hasT /\ IsSinglePlaceholder(SiOf(c))
IsTableCell(c) == IsPlaceholderCell(c) /\ SiOf(c).parts[1].table
AccessorOf(c) == SiOf(c).parts[1].segs

\* the top-level property name of the data context
DataField(name) == IF HasKey(data.o, name) THEN Lookup(data.o, name) ELSE Undef

\* ${table:list.key} over a list of k objects
IsListKeyCell(c, k) ==
    /\ IsTableCell(c)
    /\ Len(AccessorOf(c)) = 2
    /\ DataField(AccessorOf(c)[1]).k = "array"
    /\ Len(DataField(AccessorOf(c)[1]).a) = k
    /\ \A j \in 1..k : DataField(AccessorOf(c)[1]).a[j].k = "object"

\* the value of the key of c in the j-th object of its list
KeyValue(c, j) ==
    LET o == DataField(AccessorOf(c)[1]).a[j].o
    IN  IF HasKey(o, AccessorOf(c)[2]) THEN Lookup(o, AccessorOf(c)[2]) ELSE Undef

\* the emitted cell shows the value val of the data
Holds(cell, val) ==
    CASE val.k = "undefined" -> cell.v = <<>>
      [] val.k = "number" -> cell.t = "n" /\ cell.v = <<val.n>>
      [] val.k = "string" ->
            /\ cell.t = "s" /\ cell.v # <<>>
            /\ cell.v[1] < Len(zipStrings)
            /\ zipStrings[cell.v[1] + 1].text = val.s
      [] OTHER -> FALSE

TableOnlyRow(ws, pos, k) ==
    /\ \E n \in CellIds(ws, pos) : IsTableCell(SourceCell(ws, pos, n))
    /\ \A n \in CellIds(ws, pos) :
          IsPlaceholderCell(SourceCell(ws, pos, n)) => IsListKeyCell(SourceCell(ws, pos, n), k)

\* C1: a source row whose placeholder cells are all ${table:list.key} over a
\* list of k >= 1 objects is replaced by exactly k rows with consecutive
\* indices, and the j-th of them holds, at the column of each placeholder
\* cell, the value of that key in the j-th object.
C1_TableExpansion ==
    Done =>
      \A ws \in SheetIds : \A pos \in RowIds(ws) : \A k \in 1..(MaxPeople + 1) :
        TableOnlyRow(ws, pos, k) =>
          LET rows == EmittedRows(ws, pos)
          IN  /\ Len(rows) = k
              /\ \A j \in 1..k :
                    /\ rows[j].r = rows[1].r + j - 1
                    /\ \A n \in CellIds(ws, pos) :
                          LET c == SourceCell(ws, pos, n)
                          IN  IsTableCell(c) =>
                                \E m \in 1..Len(rows[j].children) :
                                   LET cell == rows[j].children[m]
                                   IN  /\ cell.tag = "c"
                                       /\ cell.s = c.s
                                       /\ cell.r = Ref(getExcelColumnIndex(c.r), rows[j].r)
                                       /\ Holds(cell, KeyValue(c, j))

\* a table row over two or more people has been emitted
C1_Witness ==
    /\ Done
    /\ \E ws \in SheetIds : \E pos \in RowIds(ws) : \E k \in 2..(MaxPeople + 1) :
          TableOnlyRow(ws, pos, k) /\ Len(EmittedRows(ws, pos)) = k

\* what the accessor of a placeholder cell resolves to
Resolved(c) == getByNotation(data, AccessorOf(c))

\* a cell of one non-table placeholder that resolves to an array of N values
IsColumnCell(c, N) ==
    /\ IsPlaceholderCell(c) /\ ~IsTableCell(c)
    /\ Resolved(c).k = "array" /\ Len(Resolved(c).a) = N

\* the sum of N - 1 over the column expansions of the cells before the n-th
RECURSIVE Shift(_, _, _)
Shift(ws, pos, n) ==
    IF n <= 1 THEN 0
    ELSE LET c == SourceCell(ws, pos, n - 1)
         IN  Shift(ws, pos, n - 1) +
               (IF IsPlaceholderCell(c) /\ ~IsTableCell(c) /\ Resolved(c).k = "array"
                   /\ Len(Resolved(c).a) >= 1
                THEN Len(Resolved(c).a) - 1 ELSE 0)

\* the cells of an emitted row that come from the template cell c (they
\* carry its style)
CellsFrom(row, c) == SelectSeq(row.children, LAMBDA ch : ch.tag = "c" /\ ch.s = c.s)

\* C2: a cell of one non-table placeholder that resolves to N >= 1 values is
\* emitted as N adjacent cells starting at its shifted column, and every
\* cell of the row (static, placeholder or formula) is emitted with the
\* column of its template reference plus the sum of N - 1 over the earlier
\* column expansions of the row.
C2_ColumnShift ==
    Done =>
      \A ws \in SheetIds : \A pos \in RowIds(ws) : \A n \in CellIds(ws, pos) :
        \A e \in 1..Len(EmittedRows(ws, pos)) :
          LET c == SourceCell(ws, pos, n)
              row == EmittedRows(ws, pos)[e]
              col == getExcelColumnIndex(c.r) + Shift(ws, pos, n)
              kids == CellsFrom(row, c)
          IN  /\ \A N \in 1..(MaxPeople + MaxDates + 1) :
                    IsColumnCell(c, N) =>
                       /\ Len(kids) = N
                       /\ \A j \in 1..N : kids[j].r = Ref(col + j - 1, row.r)
              /\ (~\E N \in 1..(MaxPeople + MaxDates + 1) : IsColumnCell(c, N)) =>
                    \A j \in 1..Len(kids) : getExcelColumnIndex(kids[j].r) = col

\* the text an emitted shared-string cell is meant to show: it is the j-th
\* cell that comes from the template cell c, in the e-th row emitted for the
\* source row of c
MeantText(c, e, j) ==
    IF ~IsPlaceholderCell(c) THEN ReplaceText(SiOf(c).parts, data).s
    ELSE IF IsTableCell(c) THEN valueToString(Resolved(c).a[e])
    ELSE IF Resolved(c).k = "array" THEN valueToString(Resolved(c).a[j])
    ELSE valueToString(Resolved(c))

IsStringCell(ch) == ch.tag = "c" /\ ch.t = "s" /\ ch.v # <<>>

\* C3: after replace, the final shared-string table is the carried-forward
\* entries followed by the new strings, and every emitted cell of type s, in
\* every worksheet, stores an index of that table whose entry holds the text
\* the cell is meant to show.
C3_SharedStringIndexValid ==
    Done =>
      /\ SubSeq(zipStrings, 1, Len(newSharedStrings)) = newSharedStrings
      /\ \A ws \in SheetIds : \A r \in 1..Len(zipSheets[ws].rows) :
            \A m \in 1..Len(zipSheets[ws].rows[r].children) :
               LET ch == zipSheets[ws].rows[r].children[m]
               IN  IsStringCell(ch) =>
                     /\ ch.v[1] >= 0 /\ ch.v[1] < Len(zipStrings)
                     /\ \E n \in CellIds(ws, zipSheets[ws].rows[r].from) :
                           SourceCell(ws, zipSheets[ws].rows[r].from, n).s = ch.s
      /\ \A ws \in SheetIds : \A pos \in RowIds(ws) : \A n \in CellIds(ws, pos) :
            \A e \in 1..Len(EmittedRows(ws, pos)) :
               LET c == SourceCell(ws, pos, n)
                   kids == CellsFrom(EmittedRows(ws, pos)[e], c)
               IN  \A j \in 1..Len(kids) :
                      IsStringCell(kids[j]) =>
                         zipStrings[kids[j].v[1] + 1].text = MeantText(c, e, j)

\* two worksheets have been written, with cells that refer to carried-forward
\* entries and cells that refer to new strings
C3_Witness ==
    /\ Done /\ Len(sheets) = 2 /\ newSharedStrings # <<>>
    /\ \A ws \in SheetIds : \E r \in 1..Len(zipSheets[ws].rows) :
          \E m \in 1..Len(zipSheets[ws].rows[r].children) :
             /\ IsStringCell(zipSheets[ws].rows[r].children[m])
             /\ zipSheets[ws].rows[r].children[m].v[1] >= Len(newSharedStrings)
    /\ \E r \in 1..Len(zipSheets[1].rows) : \E m \in 1..Len(zipSheets[1].rows[r].children) :
          /\ IsStringCell(zipSheets[1].rows[r].children[m])
          /\ zipSheets[1].rows[r].children[m].v[1] < Len(newSharedStrings)

\* C4: two calls of addString with the same text return the same index, calls
\* with different texts return different indices, every returned index is at
\* least the number of carried-forward entries, and the final table holds
\* exactly one new entry for each distinct new text.
C4_AddStringDedup ==
    /\ \A a, b \in 1..Len(addLog) :
          (addLog[a][1] = addLog[b][1]) <=> (addLog[a][2] = addLog[b][2])
    /\ \A a \in 1..Len(addLog) : addLog[a][2] >= Len(newSharedStrings)
    /\ Done =>
         LET fresh == SubSeq(zipStrings, Len(newSharedStrings) + 1, Len(zipStrings))
         IN  /\ \A a, b \in 1..Len(fresh) : fresh[a].text = fresh[b].text => a = b
             /\ {fresh[a].text : a \in 1..Len(fresh)} = {addLog[a][1] : a \in 1..Len(addLog)}
             /\ \A a \in 1..Len(addLog) :
                   zipStrings[addLog[a][2] + 1].text = addLog[a][1]

\* addString has been called again with a text it had seen and with a text it
\* had not, in a run over two worksheets
C4_Witness ==
    /\ Done /\ Len(sheets) = 2
    /\ \E a, b \in 1..Len(addLog) : a < b /\ addLog[a][1] = addLog[b][1]
    /\ \E a, b \in 1..Len(addLog) : addLog[a][1] # addLog[b][1]

\* C5: every row emitted for a source row that has a formula cell contains
\* that cell with its formula, attributes and style, and without <v>.
C5_FormulaCarried ==
    Done =>
      \A ws \in SheetIds : \A pos \in RowIds(ws) : \A n \in CellIds(ws, pos) :
        LET c == SourceCell(ws, pos, n)
        IN  c.f # "" =>
              \A e \in 1..Len(EmittedRows(ws, pos)) :
                 \E m \in 1..Len(EmittedRows(ws, pos)[e].children) :
                    LET ch == EmittedRows(ws, pos)[e].children[m]
                    IN  /\ ch.tag = "c" /\ ch.f = c.f
                        /\ ch.r = c.r /\ ch.s = c.s /\ ch.t = c.t
                        /\ ch.v = <<>>

\* the text of an <si> that holds no placeholder
IsStaticSi(si) == si.hasT /\ \A j \in 1..Len(si.parts) : ~si.parts[j].ph
StaticText(si) == Join([j \in 1..Len(si.parts) |-> si.parts[j].lit], "")

\* C6: a cell without formula that is not a shared-string cell, and a
\* shared-string cell whose text has no placeholder, is emitted once in every
\* row of its source row, at its shifted position, with the type and the
\* displayed value it has in the template.
C6_CopiedThrough ==
    Done =>
      \A ws \in SheetIds : \A pos \in RowIds(ws) : \A n \in CellIds(ws, pos) :
        LET c == SourceCell(ws, pos, n)
            col == getExcelColumnIndex(c.r) + Shift(ws, pos, n)
        IN  \A e \in 1..Len(EmittedRows(ws, pos)) :
               LET row == EmittedRows(ws, pos)[e]
                   kids == CellsFrom(row, c)
               IN  /\ (c.f = "" /\ c.t # "s") =>
                         /\ Len(kids) = 1
                         /\ kids[1].r = Ref(col, row.r)
                         /\ kids[1].t = c.t
                         /\ kids[1].v = c.v
                   /\ (HasSi(c) /\ IsStaticSi(SiOf(c))) =>
                         /\ Len(kids) = 1
                         /\ kids[1].r = Ref(col, row.r)
                         /\ kids[1].t = "s"
                         /\ Holds(kids[1], Str(StaticText(SiOf(c))))

\* C8: replace never raises, whatever the data context and the placeholders
\* of the template are.
C8_NoException == pc # "threw"

\* the row and the column a reference names
RECURSIVE DigitsValue(_, _)
DigitsValue(chars, acc) ==
    IF chars = <<>> THEN acc
    ELSE DigitsValue(Tail(chars),
                     acc * 10 + (CHOOSE d \in 0..9 : Digits[d + 1] = Head(chars)))
RefRow(ref) == DigitsValue(SelectSeq(ref, IsDigitChar), 0)
RefColumn(ref) == getExcelColumnIndex(ref)

\* the rows inserted above row R of worksheet ws
RECURSIVE RowsInsertedAbove(_, _, _)
RowsInsertedAbove(ws, R, pos) ==
    IF pos = 0 THEN 0
    ELSE RowsInsertedAbove(ws, R, pos - 1) +
           (IF sheets[ws].rows[pos].r < R THEN Len(EmittedRows(ws, pos)) - 1 ELSE 0)

\* the columns inserted in row R of worksheet ws before column C
ColumnsInsertedBefore(ws, R, C) ==
    LET here == {pos \in RowIds(ws) : sheets[ws].rows[pos].r = R}
    IN  IF here = {} THEN 0
        ELSE LET pos == CHOOSE x \in here : TRUE
                 before == {n \in CellIds(ws, pos) :
                               getExcelColumnIndex(SourceCell(ws, pos, n).r) < C}
             IN  Shift(ws, pos, Cardinality(before) + 1)

ShiftedRef(ws, ref) ==
    Ref(RefColumn(ref) + ColumnsInsertedBefore(ws, RefRow(ref), RefColumn(ref)),
        RefRow(ref) + RowsInsertedAbove(ws, RefRow(ref), Len(sheets[ws].rows)))

\* C10: the merged ranges of an emitted worksheet are those of the template
\* moved by the rows inserted above them and the columns inserted to their left.
C10_MergedRangesShifted ==
    Done =>
      \A ws \in SheetIds : \A m \in 1..Len(sheets[ws].mergeCells) :
        /\ Len(zipSheets[ws].mergeCells) = Len(sheets[ws].mergeCells)
        /\ zipSheets[ws].mergeCells[m] =
              [from |-> ShiftedRef(ws, sheets[ws].mergeCells[m].from),
               to |-> ShiftedRef(ws, sheets[ws].mergeCells[m].to)]

(***************************************************************************)
(* The helpers on their own                                                *)
(***************************************************************************)
HelperInit(inputs) ==
    /\ fnIn \in inputs
    /\ fnOut = Idle
    /\ pc = "helper"
    /\ data = Undef /\ strings = <<>> /\ sheets = <<>>
    /\ i = 0
    /\ valuesToReplace = <<>> /\ newSharedStrings = <<>> /\ newStrings = <<>>
    /\ addLog = <<>>
    /\ w = 1 /\ p = 1 /\ ci = 1
    /\ rowOffset = 0 /\ cellOffset = 0
    /\ newCells = <<>> /\ newRows = <<>>
    /\ zipSheets = <<>> /\ zipStrings = <<>>

helperFrame ==
    UNCHANGED <<inputVars, sheetVars, pc, i, valuesToReplace, newSharedStrings, newStrings,
                addLog, zipSheets, zipStrings, fnIn>>

\* a value and the values inside it
RECURSIVE SubValues(_)
SubValues(v) ==
    {v} \cup
      (CASE v.k = "array" -> UNION {SubValues(v.a[j]) : j \in 1..Len(v.a)}
         [] v.k = "object" -> UNION {SubValues(v.o[j][2]) : j \in 1..Len(v.o)}
         [] OTHER -> {})

ResolverValues ==
    {Undef, Arr(<<Arr(<<Person(1), Person(2)>>), Arr(<<Person(3)>>)>>)}
      \cup UNION {SubValues(d) : d \in DataSet}

Suffixes(seq) == {SubSeq(seq, n, Len(seq)) : n \in 1..Len(seq)}

\* the segments of the accessors people.name, people[0].name, ...
ResolverPaths ==
    UNION {Suffixes(path) : path \in
              { <<"people", "name">>, <<"people", "0", "name">>, <<"people", "5", "name">>,
                <<"dates", "1">>, <<"items", "tag">>, <<"meta", "owner", "name">>,
                <<"title", "length">>, <<"missing", "name">>, <<"1", "0", "age">> }}

ResolverInit ==
    HelperInit({[op |-> "getByNotation", obj |-> v, props |-> path] :
                   v \in ResolverValues, path \in ResolverPaths})

ApplyGetByNotation ==
    /\ pc = "helper"
    /\ fnIn.op = "getByNotation"
    /\ fnOut = Idle
    /\ fnOut' = [op |-> "getByNotation", result |-> getByNotation(fnIn.obj, fnIn.props)]
    /\ helperFrame

SpecResolver == ResolverInit /\ [][ApplyGetByNotation]_vars

\* accessors.map(el => /^\d+$/.test(el) ? parseInt(el) : el)
Accessors(props) ==
    [n \in 1..Len(props) |-> IF IsDigits(props[n]) THEN Num(ParseInt(props[n]))
                              ELSE Str(props[n])]

\* C7: the segments are walked left to right; at a sequence, a non-numeric
\* key gives the sequence of what the remaining segments (that key first)
\* resolve to on each element, in order, and a numeric segment gives what
\* the segments after it resolve to on the element at that 0-based index;
\* an undefined value on the way gives undefined; people.name over a list of
\* people is the list of their names.
C7_BroadcastRule ==
    fnOut.op = "getByNotation" =>
      LET obj == fnIn.obj
          acc == Accessors(fnIn.props)
          res == fnOut.result
      IN  /\ (obj.k = "array" /\ acc[1].k = "string" /\ res # Thrown) =>
                /\ res.k = "array"
                /\ Len(res.a) = Len(obj.a)
                /\ \A j \in 1..Len(obj.a) : res.a[j] = getDeep(obj.a[j], acc)
          /\ (obj.k = "array" /\ acc[1].k = "number") =>
                res = getDeep(IF acc[1].n < Len(obj.a) THEN obj.a[acc[1].n + 1] ELSE Undef,
                              Tail(acc))
          /\ obj.k = "undefined" => res = Undef
          /\ (obj.k = "object" /\ acc[1].k = "string") =>
                IF HasKey(obj.o, acc[1].s)
                THEN res = getDeep(Lookup(obj.o, acc[1].s), Tail(acc))
                ELSE res = Undef
          /\ (obj.k = "object" /\ HasKey(obj.o, "people") /\ fnIn.props = <<"people", "name">>) =>
                LET people == Lookup(obj.o, "people").a
                IN  res = Arr([j \in 1..Len(people) |-> Lookup(people[j].o, "name")])

\* a key has been broadcast over a sequence of two or more elements
C7_Witness ==
    /\ fnOut.op = "getByNotation"
    /\ fnIn.obj.k = "array" /\ Len(fnIn.obj.a) >= 2
    /\ ~IsDigits(fnIn.props[1])
    /\ fnOut.result.k = "array"
    /\ \E j \in 1..Len(fnOut.result.a) : fnOut.result.a[j].k = "string"

MaxLetters == 2

RECURSIVE LetterStrings(_)
LetterStrings(n) ==
    IF n = 0 THEN {<<>>}
    ELSE {Append(l, Letters[x]) : l \in LetterStrings(n - 1), x \in 1..26}

ColumnsInit ==
    HelperInit({[op |-> "index", n |-> n] : n \in 1..MaxColumn}
                 \cup {[op |-> "letters", l |-> l] :
                          l \in UNION {LetterStrings(n) : n \in 1..MaxLetters}})

\* getExcelColumnName of an index, or of the index found for the letters
ApplyColumnName ==
    /\ pc = "helper"
    /\ \/ /\ fnIn.op = "index" /\ fnOut = Idle
          /\ fnOut' = [op |-> "name", name |-> getExcelColumnName(fnIn.n)]
       \/ /\ fnIn.op = "letters" /\ fnOut.op = "index"
          /\ fnOut' = [op |-> "index-name", index |-> fnOut.index,
                       name |-> getExcelColumnName(fnOut.index)]
    /\ helperFrame

\* getExcelColumnIndex of letters, or of the name found for the index
ApplyColumnIndex ==
    /\ pc = "helper"
    /\ \/ /\ fnIn.op = "letters" /\ fnOut = Idle
          /\ fnOut' = [op |-> "index", index |-> getExcelColumnIndex(fnIn.l)]
       \/ /\ fnIn.op = "index" /\ fnOut.op = "name"
          /\ fnOut' = [op |-> "name-index", name |-> fnOut.name,
                       index |-> getExcelColumnIndex(fnOut.name)]
    /\ helperFrame

ColumnsNext == ApplyColumnName \/ ApplyColumnIndex

SpecColumns == ColumnsInit /\ [][ColumnsNext]_vars

\* C9: the name of the index of a string of letters A..Z is that string, and
\* the index of the name of n >= 1 is n, with A = 1, Z = 26 and AA = 27.
C9_ColumnRoundTrip ==
    /\ fnOut.op = "index-name" => fnOut.name = fnIn.l
    /\ fnOut.op = "name-index" => fnOut.index = fnIn.n
    /\ (fnOut.op = "index" /\ fnIn.l = <<"A">>) => fnOut.index = 1
    /\ (fnOut.op = "index" /\ fnIn.l = <<"Z">>) => fnOut.index = 26
    /\ (fnOut.op = "index" /\ fnIn.l = <<"A", "A">>) => fnOut.index = 27
    /\ (fnOut.op = "name" /\ fnIn.n = 27) => fnOut.name = <<"A", "A">>

\* both round trips have been made through a name of two letters
C9_Witness ==
    \/ fnOut.op = "index-name" /\ Len(fnIn.l) = 2 /\ fnOut.index > 26
    \/ fnOut.op = "name-index" /\ fnIn.n > 26 /\ Len(fnOut.name) >= 2


(***************************************************************************)
(* Row accounting                                                          *)
(***************************************************************************)
\* the number of rows emitted for source row pos of worksheet ws
Multiplicity(ws, pos) == Len(EmittedRows(ws, pos))

\* the sum of m - 1 over the source rows of ws before position pos
RECURSIVE InsertedBefore(_, _)
InsertedBefore(ws, pos) ==
    IF pos <= 1 THEN 0
    ELSE InsertedBefore(ws, pos - 1) + (Multiplicity(ws, pos - 1) - 1)

\* C11: within a worksheet rowOffset starts at 0 and a source row of
\* multiplicity m adds m - 1 to it: the first row emitted for the source row
\* with template index r has index r plus the sum of m - 1 over the earlier
\* source rows, and the rowOffset the worksheet ends with is that sum over
\* all its rows.
C11_RowOffsetAccounting ==
    /\ (pc = "rows" /\ p = 1) => rowOffset = 0
    /\ Done =>
         \A ws \in SheetIds : \A pos \in RowIds(ws) :
            /\ Multiplicity(ws, pos) >= 1
            /\ EmittedRows(ws, pos)[1].r = sheets[ws].rows[pos].r + InsertedBefore(ws, pos)
    /\ (Done /\ Len(sheets) = 1) =>
         rowOffset = InsertedBefore(1, Len(sheets[1].rows) + 1)

(***************************************************************************)
(* Rows of a multi-row expansion                                           *)
(***************************************************************************)
\* the j-th cells that two emitted rows hold for one template cell agree in
\* column, type, formula and value
SameCell(a, b) ==
    /\ RefColumn(a.r) = RefColumn(b.r)
    /\ a.t = b.t /\ a.f = b.f /\ a.v = b.v

\* C12: when a source row is emitted as m > 1 rows, each of the m rows holds
\* every cell of the source row that is not a table cell (static, scalar
\* placeholder, column expansion, formula), with the same value and at the
\* same column as the other rows, and with the index of its own row in its
\* reference.
C12_ConstantCells ==
    Done =>
      \A ws \in SheetIds : \A pos \in RowIds(ws) :
        Multiplicity(ws, pos) > 1 =>
          \A n \in CellIds(ws, pos) : \A e \in 1..Multiplicity(ws, pos) :
            LET c == SourceCell(ws, pos, n)
                row == EmittedRows(ws, pos)[e]
                kids == CellsFrom(row, c)
                first == CellsFrom(EmittedRows(ws, pos)[1], c)
            IN  ~IsTableCell(c) =>
                  /\ Len(kids) >= 1
                  /\ Len(kids) = Len(first)
                  /\ \A j \in 1..Len(kids) :
                        /\ SameCell(kids[j], first[j])
                        /\ kids[j].f = c.f
                        /\ RefRow(kids[j].r) = row.r

\* the lengths of the arrays of the table cells of a source row
TableLengths(ws, pos) ==
    {Len(Resolved(SourceCell(ws, pos, n)).a) :
        n \in {x \in CellIds(ws, pos) :
                  /\ IsTableCell(SourceCell(ws, pos, x))
                  /\ Resolved(SourceCell(ws, pos, x)).k = "array"}}

\* C13: the number of rows emitted for a source row is the maximum length
\* over its table cells, and 1 when it has none or the maximum is 0; in the
\* e-th emitted row a table cell whose array has fewer than e values
\* contributes nothing, so every child of an emitted row is a cell element.
C13_RowMultiplicity ==
    Done =>
      \A ws \in SheetIds : \A pos \in RowIds(ws) :
        /\ Multiplicity(ws, pos) =
              (IF TableLengths(ws, pos) = {} \/ Max(TableLengths(ws, pos)) = 0
               THEN 1 ELSE Max(TableLengths(ws, pos)))
        /\ \A e \in 1..Multiplicity(ws, pos) :
              LET row == EmittedRows(ws, pos)[e]
              IN  /\ \A m \in 1..Len(row.children) : row.children[m].tag = "c"
                  /\ \A n \in CellIds(ws, pos) :
                        LET c == SourceCell(ws, pos, n)
                        IN  (IsTableCell(c) /\ Resolved(c).k = "array"
                               /\ Len(Resolved(c).a) < e) => CellsFrom(row, c) = <<>>

\* the row indices of the template of worksheet ws are strictly increasing
IncreasingTemplate(ws) ==
    \A a, b \in RowIds(ws) : a < b => sheets[ws].rows[a].r < sheets[ws].rows[b].r

\* C14: for a worksheet whose source rows have strictly increasing indices,
\* the indices of the emitted rows are strictly increasing in the order of
\* emission, whatever the multiplicities of the rows are.
C14_RowIndicesIncrease ==
    /\ (pc \in {"cells", "rows"}) =>
          (IncreasingTemplate(w) =>
             \A a, b \in 1..Len(newRows) : a < b => newRows[a].r < newRows[b].r)
    /\ Done =>
         \A ws \in SheetIds :
           IncreasingTemplate(ws) =>
             \A a, b \in 1..Len(zipSheets[ws].rows) :
                a < b => zipSheets[ws].rows[a].r < zipSheets[ws].rows[b].r

\* a worksheet of two source rows has been written, the first emitted as
\* several rows and followed by the rows of the second
C14_Witness ==
    /\ Done
    /\ \E ws \in SheetIds :
          /\ Len(sheets[ws].rows) >= 2 /\ IncreasingTemplate(ws)
          /\ Multiplicity(ws, 1) >= 2
          /\ Multiplicity(ws, 2) >= 1

====
